---- MODULE Spec2Model ----
(***************************************************************************)
(* A model of the MoE token router of megatron/core/transformer/moe/       *)
(* router.py: Router.forward, TopKRouter.routing and its strategies, and   *)
(* grouped_router.                                                         *)
(*                                                                         *)
(* Numbers.  Logits are integers counting hundredths (66 is 0.66).         *)
(* Probabilities are fixed point with denominator ONE.  exp is computed by *)
(* repeated multiplication with rounding down, so that, as in floating     *)
(* point, it is monotone, it underflows to 0, and distinct logits can      *)
(* round to equal probabilities.                                           *)
(*                                                                         *)
(* Tensors.  A matrix is a sequence of rows, a row a sequence of numbers.  *)
(* Expert ids are 0-based as in the code; positions in a row are 1-based.  *)
(***************************************************************************)
EXTENDS Integers, Sequences, FiniteSets, TLC

\* ------------------------------------------------------------- fixed point

\* The fixed-point denominator of probabilities.
ONE == 10000

\* exp(-0.01) in fixed point, rounded down: one step of the exp table.
ExpDecay == 9900

\* exp is tabulated in two levels: ExpBlocks blocks of ExpBlock steps of 0.01
\* each; beyond the last block exp has underflowed to 0.
ExpBlock == 40

ExpBlocks == 30

ExpCut == ExpBlock * ExpBlocks

RECURSIVE PowFx(_, _)
\* b^n in fixed point, each product rounded down.
PowFx(b, n) == IF n = 0 THEN ONE ELSE (PowFx(b, n - 1) * b) \div ONE

\* exp(-r/100) for r < ExpBlock, and exp(-q * ExpBlock/100) for q < ExpBlocks.
ExpFine == [r \in 1..ExpBlock |-> PowFx(ExpDecay, r - 1)] \o <<>>

ExpCoarse ==
    [q \in 1..ExpBlocks |-> PowFx(PowFx(ExpDecay, ExpBlock), q - 1)] \o <<>>

\* exp(-d/100) for d >= 0, in fixed point: non-increasing in d.
ExpFx(d) ==
    IF d >= ExpCut THEN 0
    ELSE (ExpCoarse[(d \div ExpBlock) + 1] * ExpFine[(d % ExpBlock) + 1]) \div ONE

\* ---------------------------------------------------------------- helpers

\* A sequence given as a function, with every element computed once.
Tup(s) == s \o <<>>

RECURSIVE SumSeq(_)
SumSeq(s) == IF s = <<>> THEN 0 ELSE Head(s) + SumSeq(Tail(s))

RECURSIVE MaxSeq(_)
MaxSeq(s) ==
    IF Len(s) = 1 THEN s[1]
    ELSE LET m == MaxSeq(Tail(s)) IN IF s[1] >= m THEN s[1] ELSE m

RECURSIVE Flatten(_)
\* The row-major element order of a contiguous tensor.
Flatten(m) == IF m = <<>> THEN <<>> ELSE Head(m) \o Flatten(Tail(m))

\* view(-1, cols) of a contiguous tensor given in row-major order.
Reshape(flat, cols) ==
    Tup([r \in 1..(Len(flat) \div cols) |->
            Tup([c \in 1..cols |-> flat[(r - 1) * cols + c]])])

\* torch.softmax(row, dim=-1): exp of the distance to the row maximum,
\* divided by the sum.
Softmax(row) ==
    LET m == MaxSeq(row)
        e == Tup([i \in 1..Len(row) |-> ExpFx(m - row[i])])
        s == SumSeq(e)
    IN  Tup([i \in 1..Len(row) |-> (e[i] * ONE) \div s])

\* torch.sigmoid(x) = 1 / (1 + exp(-x)) of one element.
Sigmoid(x) ==
    IF x >= 0 THEN (ONE * ONE) \div (ONE + ExpFx(x))
    ELSE (ExpFx(0 - x) * ONE) \div (ONE + ExpFx(0 - x))

\* ------------------------------------------------------------------ top-k

\* A value of type Optional: <<>> is None, <<v>> is v.
None == <<>>

IsNone(o) == o = <<>>

\* Python's truth value of an Optional number: None and 0 are false.
Truthy(o) == o # <<>> /\ o[1] # 0

\* Whether position i goes before position j in torch.topk's output order:
\* the larger value first; the order of equal values is not specified by
\* torch, and tie says which way this build breaks it.
Before(row, i, j, tie) ==
    \/ row[i] > row[j]
    \/ row[i] = row[j] /\ (IF tie = "low" THEN i <= j ELSE i >= j)

RECURSIVE TopKFrom(_, _, _, _)
TopKFrom(row, rest, k, tie) ==
    IF k = 0 THEN <<>>
    ELSE LET b == CHOOSE i \in rest : \A j \in rest : Before(row, i, j, tie)
         IN  <<b>> \o TopKFrom(row, rest \ {b}, k - 1, tie)

\* torch.topk(row, k): the positions (1-based) of the k largest values,
\* largest first.  Defined for 0 <= k <= Len(row).
TopKPos(row, k, tie) == TopKFrom(row, 1..Len(row), k, tie)

\* The values and the 0-based indices torch.topk returns for one row.
TopKValues(row, k, tie) ==
    LET pos == TopKPos(row, k, tie) IN Tup([i \in 1..k |-> row[pos[i]]])

TopKIndices(row, k, tie) ==
    LET pos == TopKPos(row, k, tie) IN Tup([i \in 1..k |-> pos[i] - 1])

\* torch.gather(m, 1, indices): m[t][indices[t][i]].
Gather(m, indices) ==
    Tup([t \in 1..Len(m) |->
            Tup([i \in 1..Len(indices[t]) |-> m[t][indices[t][i] + 1]])])

\* ------------------------------------------- collaborators outside router.py

\* MoEAuxLossAutoScaler.apply(output, aux_loss): the identity on the forward
\* pass; the loss only adds a term to the backward gradient.
AutoScalerApply(output, aux_loss) == output

\* attention_mask_func(attention_scores, attention_mask): masked_fill with
\* -10000.0, in hundredths.
MaskFill == -1000000

AttentionMaskFunc(scores, mask) ==
    Tup([t \in 1..Len(scores) |->
            Tup([n \in 1..Len(scores[t]) |->
                    IF mask[t][n] THEN MaskFill ELSE scores[t][n]])])

\* The number of row/column normalisation rounds of sinkhorn.
SinkhornIters == 3

NormRows(m) ==
    Tup([t \in 1..Len(m) |->
            LET s == SumSeq(m[t])
            IN  Tup([n \in 1..Len(m[t]) |->
                        IF s = 0 THEN 0 ELSE (m[t][n] * ONE) \div s])])

NormCols(m) ==
    LET cols == IF m = <<>> THEN 0 ELSE Len(m[1])
        s == Tup([n \in 1..cols |-> SumSeq(Tup([t \in 1..Len(m) |-> m[t][n]]))])
    IN  Tup([t \in 1..Len(m) |->
                Tup([n \in 1..cols |->
                        IF s[n] = 0 THEN 0 ELSE (m[t][n] * ONE) \div s[n]])])

RECURSIVE SinkhornRounds(_, _)
SinkhornRounds(m, n) ==
    IF n = 0 THEN m ELSE SinkhornRounds(NormCols(NormRows(m)), n - 1)

\* sinkhorn(cost): exp of the logits, then alternately scaled by rows (d0)
\* and by columns (d1) towards a doubly stochastic matrix.
Sinkhorn(cost) ==
    LET m == MaxSeq(Flatten(cost))
        e == Tup([t \in 1..Len(cost) |->
                    Tup([n \in 1..Len(cost[t]) |-> ExpFx(m - cost[t][n])])])
    IN  SinkhornRounds(e, SinkhornIters)

\* ---------------------------------------------------------- grouped_router

\* What a routing function gives back: a result, or the exception it raised.
\* grouped_router's part in a call: not called.
NotCalled ==
    [called |-> FALSE, ok |-> FALSE, error |-> "", probs |-> <<>>,
     scores |-> <<>>, indices |-> <<>>]

Returned(scores, indices, losses) ==
    [ok |-> TRUE, error |-> "", scores |-> scores, indices |-> indices,
     losses |-> losses, grouped |-> NotCalled]

Raised(error) ==
    [ok |-> FALSE, error |-> error, scores |-> <<>>, indices |-> <<>>,
     losses |-> <<>>, grouped |-> NotCalled]

\* Whether torch.topk(m, k, dim=-1) accepts k: 0 <= k <= size of the last dim.
TopKInRange(cols, k) == k >= 0 /\ k <= cols

\* len(torch.arange(0, stop, step)) for stop > 0, step > 0.
ArangeLen(stop, step) == (stop + step - 1) \div step

\* grouped_router with the group offset left out of the returned indices.
GroupedRouterLocalIds(logits, num_moe_experts, topk, moe_group_size, tie) ==
    LET probs == Tup([t \in 1..Len(logits) |-> Softmax(logits[t])])
        group_num_experts == num_moe_experts \div moe_group_size
        group_topk == topk \div moe_group_size
        flat == Flatten(probs)
        inner == moe_group_size * group_num_experts
    IN  IF inner = 0 \/ Len(flat) % inner # 0
           \/ ~TopKInRange(group_num_experts, group_topk)
        THEN [called |-> TRUE, ok |-> FALSE, error |-> "RuntimeError",
              probs |-> <<>>, scores |-> <<>>, indices |-> <<>>]
        ELSE
        LET groups == Reshape(flat, group_num_experts)
            sel == Tup([j \in 1..Len(groups) |->
                          TopKValues(groups[j], group_topk, tie)])
            idx == Tup([j \in 1..Len(groups) |->
                          TopKIndices(groups[j], group_topk, tie)])
        IN  IF (Len(groups) * group_topk) % topk # 0
               \/ ArangeLen(num_moe_experts, group_num_experts) # moe_group_size
            THEN [called |-> TRUE, ok |-> FALSE, error |-> "RuntimeError",
                  probs |-> <<>>, scores |-> <<>>, indices |-> <<>>]
            ELSE [called |-> TRUE, ok |-> TRUE, error |-> "", probs |-> probs,
                  scores |-> Reshape(Flatten(sel), topk),
                  indices |-> Reshape(Flatten(idx), topk)]

\* grouped_router(logits, num_moe_experts, topk, moe_group_size), with every
\* shape check torch makes on the way: view(-1, G, N // G), topk(k // G),
\* scores.view(-1, topk), the broadcast of indices (.., G, k // G) with the
\* arange (1, len, 1) (of the three ways to broadcast, G = len is the only
\* one that N // G > 0 allows besides G = len = 1), and the last view.
GroupedRouter(logits, num_moe_experts, topk, moe_group_size, tie) ==
    LET probs == Tup([t \in 1..Len(logits) |-> Softmax(logits[t])])
        group_num_experts == num_moe_experts \div moe_group_size
        group_topk == topk \div moe_group_size
        flat == Flatten(probs)
        inner == moe_group_size * group_num_experts
    IN  IF inner = 0 \/ Len(flat) % inner # 0
        THEN [called |-> TRUE, ok |-> FALSE, error |-> "RuntimeError", probs |-> <<>>,
              scores |-> <<>>, indices |-> <<>>]
        ELSE IF ~TopKInRange(group_num_experts, group_topk)
        THEN [called |-> TRUE, ok |-> FALSE, error |-> "RuntimeError", probs |-> <<>>,
              scores |-> <<>>, indices |-> <<>>]
        ELSE
        LET groups == Reshape(flat, group_num_experts)
            sel == Tup([j \in 1..Len(groups) |->
                          TopKValues(groups[j], group_topk, tie)])
            idx == Tup([j \in 1..Len(groups) |->
                          TopKIndices(groups[j], group_topk, tie)])
            offset == Tup([j \in 1..Len(groups) |->
                             ((j - 1) % moe_group_size) * group_num_experts])
            adjusted == Tup([j \in 1..Len(groups) |->
                               Tup([c \in 1..group_topk |-> idx[j][c] + offset[j]])])
            numel == Len(groups) * group_topk
        IN  IF numel % topk # 0
               \/ ArangeLen(num_moe_experts, group_num_experts) # moe_group_size
            THEN [called |-> TRUE, ok |-> FALSE, error |-> "RuntimeError", probs |-> <<>>,
                  scores |-> <<>>, indices |-> <<>>]
            ELSE [called |-> TRUE, ok |-> TRUE, error |-> "", probs |-> probs,
                  scores |-> Reshape(Flatten(sel), topk),
                  indices |-> Reshape(Flatten(adjusted), topk)]

\* ------------------------------------------------------- routing strategies

\* moe_aux_loss_type values, as character sequences ('btx' in ... is a
\* substring test).
StrSwitch == <<"s", "w", "i", "t", "c", "h">>

StrBtx == <<"b", "t", "x">>

StrBtxNograd == <<"b", "t", "x", "_", "n", "o", "g", "r", "a", "d">>

StrBtxV2 == <<"b", "t", "x", "_", "v", "2">>

StrEntropy == <<"e", "n", "t", "r", "o", "p", "y">>

\* Python's `sub in s` for strings.
StrIn(sub, s) ==
    \E i \in 0..(Len(s) - Len(sub)) : SubSeq(s, i + 1, i + Len(sub)) = sub

\* The softmax / sigmoid of every row / element of a matrix.
SoftmaxRows(m) == Tup([t \in 1..Len(m) |-> Softmax(m[t])])

SigmoidAll(m) ==
    Tup([t \in 1..Len(m) |-> Tup([n \in 1..Len(m[t]) |-> Sigmoid(m[t][n])])])

\* torch.topk(m, k, dim=1) of a matrix: values and indices.
TopKScores(m, k, tie) == Tup([t \in 1..Len(m) |-> TopKValues(m[t], k, tie)])

TopKIdx(m, k, tie) == Tup([t \in 1..Len(m) |-> TopKIndices(m[t], k, tie)])

Cols(m) == IF m = <<>> THEN 0 ELSE Len(m[1])

\* one_hot(indices, num_classes).sum(dim=1): how often each expert is in a row.
OneHotSum(indices, num_classes) ==
    Tup([t \in 1..Len(indices) |->
            Tup([n \in 1..num_classes |->
                    Cardinality({i \in 1..Len(indices[t]) : indices[t][i] = n - 1})])])

\* TopKRouter.apply_aux_loss: the loss attached to the activation, which
\* comes back as AutoScalerApply leaves it.
ApplyAuxLoss(cfg, probs, indices, activation) ==
    LET mask == OneHotSum(indices, cfg.num_moe_experts)
        aux_loss == [func |-> "switch_load_balancing_loss_func",
                     on |-> "scores", probs |-> probs, mask |-> mask,
                     coeff |-> cfg.moe_aux_loss_coeff, nograd |-> FALSE]
    IN  [activation |-> AutoScalerApply(activation, aux_loss),
         loss |-> aux_loss]

\* _sinkhorn_activation: sigmoid when topk == 1, softmax otherwise.
SinkhornActivation(cfg, logits) ==
    IF cfg.moe_router_topk = 1 THEN SigmoidAll(logits) ELSE SoftmaxRows(logits)

\* sinkhorn_load_balancing gathering the training scores from the balanced
\* matrix instead of from the activation of the logits.
SinkhornGatherNorm(cfg, training, logits, tie) ==
    IF cfg.moe_aux_loss_coeff # 0 THEN Raised("AssertionError")
    ELSE IF ~TopKInRange(Cols(logits), cfg.moe_router_topk)
    THEN Raised("RuntimeError")
    ELSE IF training
    THEN LET norm_logits == Sinkhorn(logits)
             indices == TopKIdx(norm_logits, cfg.moe_router_topk, tie)
         IN  Returned(Gather(norm_logits, indices), indices, <<>>)
    ELSE LET act == SinkhornActivation(cfg, logits)
         IN  Returned(TopKScores(act, cfg.moe_router_topk, tie),
                      TopKIdx(act, cfg.moe_router_topk, tie), <<>>)

\* sinkhorn_load_balancing gathering the training scores from the logits
\* themselves, the activation left out.
SinkhornGatherLogits(cfg, training, logits, tie) ==
    IF cfg.moe_aux_loss_coeff # 0 THEN Raised("AssertionError")
    ELSE IF ~TopKInRange(Cols(logits), cfg.moe_router_topk)
    THEN Raised("RuntimeError")
    ELSE IF training
    THEN LET norm_logits == Sinkhorn(logits)
             indices == TopKIdx(norm_logits, cfg.moe_router_topk, tie)
         IN  Returned(Gather(logits, indices), indices, <<>>)
    ELSE LET act == SinkhornActivation(cfg, logits)
         IN  Returned(TopKScores(act, cfg.moe_router_topk, tie),
                      TopKIdx(act, cfg.moe_router_topk, tie), <<>>)

\* TopKRouter.sinkhorn_load_balancing.
SinkhornLoadBalancing(cfg, training, logits, tie) ==
    IF cfg.moe_aux_loss_coeff # 0 THEN Raised("AssertionError")
    ELSE IF ~TopKInRange(Cols(logits), cfg.moe_router_topk)
    THEN Raised("RuntimeError")
    ELSE IF training
    THEN LET norm_logits == Sinkhorn(logits)
             indices == TopKIdx(norm_logits, cfg.moe_router_topk, tie)
             act == SinkhornActivation(cfg, logits)
         IN  Returned(Gather(act, indices), indices, <<>>)
    ELSE LET act == SinkhornActivation(cfg, logits)
         IN  Returned(TopKScores(act, cfg.moe_router_topk, tie),
                      TopKIdx(act, cfg.moe_router_topk, tie), <<>>)

\* TopKRouter.sigmoid_load_balancing; mask is the bernoulli_ draw.
SigmoidLoadBalancing(cfg, training, logits0, mask, tie) ==
    LET logits == IF Truthy(cfg.moe_dropout) /\ training
                  THEN AttentionMaskFunc(logits0, mask) ELSE logits0
        probs == SigmoidAll(logits)
    IN  IF ~TopKInRange(Cols(logits), cfg.moe_router_topk)
        THEN Raised("RuntimeError")
        ELSE LET scores == TopKScores(probs, cfg.moe_router_topk, tie)
                 indices == TopKIdx(probs, cfg.moe_router_topk, tie)
                 a == ApplyAuxLoss(cfg, SoftmaxRows(logits), indices, scores)
             IN  Returned(a.activation, indices, <<a.loss>>)

\* TopKRouter.aux_loss_load_balancing: the match on moe_router_type.
AuxLossLoadBalancing(cfg, logits, tie) ==
    IF cfg.moe_router_type = "mixtral"
    THEN IF ~TopKInRange(Cols(logits), cfg.moe_router_topk)
         THEN Raised("RuntimeError")
         ELSE LET top_logits == TopKScores(logits, cfg.moe_router_topk, tie)
                  indices == TopKIdx(logits, cfg.moe_router_topk, tie)
                  scores == SoftmaxRows(top_logits)
                  a == ApplyAuxLoss(cfg, SoftmaxRows(logits), indices, scores)
              IN  Returned(a.activation, indices, <<a.loss>>)
    ELSE IF cfg.moe_router_type = "st"
    THEN IF ~TopKInRange(Cols(logits), cfg.moe_router_topk)
         THEN Raised("RuntimeError")
         ELSE LET probs == SoftmaxRows(logits)
                  scores == TopKScores(probs, cfg.moe_router_topk, tie)
                  indices == TopKIdx(probs, cfg.moe_router_topk, tie)
                  a == ApplyAuxLoss(cfg, probs, indices, scores)
              IN  Returned(a.activation, indices, <<a.loss>>)
    ELSE IF cfg.moe_router_type = "grouped"
    THEN LET g == GroupedRouter(logits, cfg.num_moe_experts,
                                cfg.moe_router_topk, cfg.moe_group_size, tie)
         IN  IF ~g.ok THEN [Raised(g.error) EXCEPT !.grouped = g]
             ELSE LET a == ApplyAuxLoss(cfg, g.probs, g.indices, g.scores)
                  IN  [Returned(a.activation, g.indices, <<a.loss>>)
                          EXCEPT !.grouped = g]
    ELSE Raised("NotImplementedError")

\* zeros_like(probs).scatter_(-1, indices, scores32).
Scatter(probs, indices, scores32) ==
    Tup([t \in 1..Len(probs) |->
            Tup([n \in 1..Len(probs[t]) |->
                    IF \E i \in 1..Len(indices[t]) : indices[t][i] = n - 1
                    THEN scores32[t][CHOOSE i \in 1..Len(indices[t]) :
                                        indices[t][i] = n - 1]
                    ELSE 0])])

\* btx_aux_loss_load_balancing taking the top-k of the full softmax (the
\* 'st' order) instead of the softmax of the top-k logits.
BtxSoftmaxBeforeTopK(cfg, logits, tie) ==
    IF ~TopKInRange(Cols(logits), cfg.moe_router_topk)
    THEN Raised("RuntimeError")
    ELSE LET indices == TopKIdx(logits, cfg.moe_router_topk, tie)
             probs == SoftmaxRows(logits)
             scores32 == TopKScores(probs, cfg.moe_router_topk, tie)
             aux_loss == [func |-> "btx", on |-> "scores", probs |-> probs,
                          mask |-> Scatter(probs, indices, scores32),
                          coeff |-> cfg.moe_aux_loss_coeff,
                          nograd |-> cfg.moe_aux_loss_type = StrBtxNograd]
         IN  Returned(AutoScalerApply(scores32, aux_loss), indices, <<aux_loss>>)

\* TopKRouter.btx_aux_loss_load_balancing.
BtxAuxLossLoadBalancing(cfg, logits, tie) ==
    IF ~TopKInRange(Cols(logits), cfg.moe_router_topk)
    THEN Raised("RuntimeError")
    ELSE LET top_logits == TopKScores(logits, cfg.moe_router_topk, tie)
             indices == TopKIdx(logits, cfg.moe_router_topk, tie)
             scores32 == SoftmaxRows(top_logits)
             probs == SoftmaxRows(logits)
             aux_loss == [func |-> "btx", on |-> "scores", probs |-> probs,
                          mask |-> Scatter(probs, indices, scores32),
                          coeff |-> cfg.moe_aux_loss_coeff,
                          nograd |-> cfg.moe_aux_loss_type = StrBtxNograd]
         IN  Returned(AutoScalerApply(scores32, aux_loss), indices, <<aux_loss>>)

\* The naive top-k branch of TopKRouter.routing (routing_type "none").
NaiveTopK(cfg, logits, tie) ==
    IF ~TopKInRange(Cols(logits), cfg.moe_router_topk)
    THEN Raised("RuntimeError")
    ELSE LET top_logits == TopKScores(logits, cfg.moe_router_topk, tie)
         IN  Returned(SoftmaxRows(top_logits),
                      TopKIdx(logits, cfg.moe_router_topk, tie), <<>>)

\* ------------------------------------------------------------ the pipeline

\* Router.gating: torch.nn.functional.linear(input, weight), no bias.
Gating(input, weight) ==
    Tup([t \in 1..Len(input) |->
            Tup([n \in 1..Len(weight) |->
                    SumSeq(Tup([h \in 1..Len(weight[n]) |->
                                   input[t][h] * weight[n][h]]))])])

\* logits.view(-1, num_moe_experts).
View(logits, num_moe_experts) == Reshape(Flatten(logits), num_moe_experts)

\* apply_z_loss testing the coefficient's truth value (`if coeff:`), which
\* takes a coefficient of 0 for None.
ApplyZLossTruthy(cfg, logits) ==
    IF Truthy(cfg.moe_z_loss_coeff)
    THEN LET z_loss == [func |-> "z_loss_func", on |-> "logits",
                        probs |-> logits, mask |-> <<>>,
                        coeff |-> cfg.moe_z_loss_coeff[1], nograd |-> FALSE]
         IN  [logits |-> AutoScalerApply(logits, z_loss), losses |-> <<z_loss>>]
    ELSE [logits |-> logits, losses |-> <<>>]

\* TopKRouter.apply_z_loss: the z-loss is computed and attached when the
\* coefficient is not None.
ApplyZLoss(cfg, logits) ==
    IF ~IsNone(cfg.moe_z_loss_coeff)
    THEN LET z_loss == [func |-> "z_loss_func", on |-> "logits",
                        probs |-> logits, mask |-> <<>>,
                        coeff |-> cfg.moe_z_loss_coeff[1], nograd |-> FALSE]
         IN  [logits |-> AutoScalerApply(logits, z_loss), losses |-> <<z_loss>>]
    ELSE [logits |-> logits, losses |-> <<>>]

\* TopKRouter.apply_input_jitter: with an epsilon configured the sampler is
\* built on first use and the input is multiplied by a sample of
\* Uniform(1 - eps, 1 + eps), here noise (hundredths, one per element).
ApplyInputJitter(cfg, training, sampler, input, noise) ==
    IF ~IsNone(cfg.moe_input_jitter_eps)
    THEN [logits |-> Tup([t \in 1..Len(input) |->
                            Tup([n \in 1..Len(input[t]) |->
                                    (input[t][n] * noise[t][n]) \div 100])]),
          input_jitter |-> "rsample", sampled |-> TRUE]
    ELSE [logits |-> input, input_jitter |-> sampler, sampled |-> FALSE]

\* The dispatch of TopKRouter.routing on routing_type and moe_aux_loss_type.
Dispatch(cfg, training, logits, mask, tie) ==
    IF cfg.moe_router_load_balancing_type = "sinkhorn"
    THEN [strategy |-> "sinkhorn_load_balancing",
          res |-> SinkhornLoadBalancing(cfg, training, logits, tie)]
    ELSE IF cfg.moe_router_load_balancing_type = "aux_loss"
    THEN IF cfg.moe_aux_loss_type = StrSwitch
         THEN [strategy |-> "aux_loss_load_balancing",
               res |-> AuxLossLoadBalancing(cfg, logits, tie)]
         ELSE IF StrIn(StrBtx, cfg.moe_aux_loss_type)
         THEN [strategy |-> "btx_aux_loss_load_balancing",
               res |-> BtxAuxLossLoadBalancing(cfg, logits, tie)]
         ELSE [strategy |-> "", res |-> Raised("ValueError")]
    ELSE IF cfg.moe_router_load_balancing_type = "none"
    THEN [strategy |-> "none", res |-> NaiveTopK(cfg, logits, tie)]
    ELSE IF cfg.moe_router_load_balancing_type = "sigmoid"
    THEN [strategy |-> "sigmoid_load_balancing",
          res |-> SigmoidLoadBalancing(cfg, training, logits, mask, tie)]
    ELSE [strategy |-> "", res |-> Raised("ValueError")]

\* routing with the input jitter applied before the z-loss.
RoutingJitterFirst(cfg, training, sampler, logits0, noise, mask, tie) ==
    LET logits == View(logits0, cfg.num_moe_experts)
        j == ApplyInputJitter(cfg, training, sampler, logits, noise)
        z == ApplyZLoss(cfg, j.logits)
        d == Dispatch(cfg, training, z.logits, mask, tie)
    IN  [res |-> d.res,
         logits |-> logits,
         z_logits |-> z.logits,
         routed |-> z.logits,
         input_jitter |-> j.input_jitter,
         losses |-> z.losses \o d.res.losses,
         steps |-> <<"view">>
                   \o (IF j.sampled THEN <<"input_jitter">> ELSE <<>>)
                   \o (IF z.losses # <<>> THEN <<"z_loss">> ELSE <<>>)
                   \o (IF d.strategy # "" THEN <<d.strategy>> ELSE <<>>)]

\* TopKRouter.routing: view, z-loss, input jitter, then the dispatch.  steps
\* lists what was computed, in order, the view of line 295 (which repeats
\* the one of Router.forward) first.
Routing(cfg, training, sampler, logits0, noise, mask, tie) ==
    LET logits == View(logits0, cfg.num_moe_experts)
        z == ApplyZLoss(cfg, logits)
        j == ApplyInputJitter(cfg, training, sampler, z.logits, noise)
        d == Dispatch(cfg, training, j.logits, mask, tie)
    IN  [res |-> d.res,
         logits |-> logits,
         z_logits |-> z.logits,
         routed |-> j.logits,
         input_jitter |-> j.input_jitter,
         losses |-> z.losses \o d.res.losses,
         steps |-> <<"view">>
                   \o (IF z.losses # <<>> THEN <<"z_loss">> ELSE <<>>)
                   \o (IF j.sampled THEN <<"input_jitter">> ELSE <<>>)
                   \o (IF d.strategy # "" THEN <<d.strategy>> ELSE <<>>)]

\* ----------------------------------------------------------- configurations

\* The largest token count T of a batch; of a batch whose call draws noise
\* (one draw per logit); of a batch routed by grouped_router with top-k 3.
MaxTokens == 2

MaxNoisyTokens == 1

MaxGroupedTokens == 3

\* The values of a token's hidden feature and of a gate weight (hundredths).
InputVals == {-1, 1, 2}

WeightVals == {0, 100}

\* A configured z-loss coefficient, input-jitter epsilon and dropout rate
\* (hundredths), and the aux-loss coefficients exercised.
ZCoeffs == {None, <<0>>, <<1>>}

JitterEps == <<50>>

Dropout == <<50>>

Base ==
    [num_moe_experts |-> 2, hidden_size |-> 1, moe_router_topk |-> 1,
     moe_router_load_balancing_type |-> "none",
     moe_aux_loss_type |-> StrSwitch, moe_router_type |-> "mixtral",
     moe_group_size |-> 1, moe_aux_loss_coeff |-> 0,
     moe_z_loss_coeff |-> None, moe_input_jitter_eps |-> None,
     moe_dropout |-> None]

RoutingTypes == {"none", "sinkhorn", "aux_loss", "sigmoid", "expert_choice"}

AuxLossTypes == {StrSwitch, StrBtx, StrBtxNograd, StrBtxV2, StrEntropy}

RouterTypes == {"mixtral", "st", "grouped", "dense"}

\* Every routing type with every z-loss coefficient.
ZLossConfigs ==
    {[Base EXCEPT !.moe_router_load_balancing_type = r, !.moe_z_loss_coeff = z] :
        r \in RoutingTypes, z \in ZCoeffs}

\* Every routing type with input jitter, with and without z-loss.
JitterConfigs ==
    {[Base EXCEPT !.moe_router_load_balancing_type = r,
                  !.moe_input_jitter_eps = JitterEps,
                  !.moe_z_loss_coeff = z] :
        r \in RoutingTypes, z \in {None, <<1>>}}

\* Sinkhorn with and without an aux-loss coefficient, top-1 and top-2.
SinkhornConfigs ==
    {[Base EXCEPT !.moe_router_load_balancing_type = "sinkhorn",
                  !.moe_router_topk = k, !.moe_aux_loss_coeff = c,
                  !.moe_z_loss_coeff = ze[1], !.moe_input_jitter_eps = ze[2]] :
        k \in 1..2, c \in {0, 1}, ze \in {<<None, None>>, <<<<1>>, JitterEps>>}}

\* Naive top-k over 2 and 3 experts, up to k = N + 1.
NoneConfigs ==
    {[Base EXCEPT !.num_moe_experts = n, !.moe_router_topk = k] :
        n \in 2..3, k \in 2..3}

\* Aux-loss routing over 3 experts: every aux-loss type, and under switch
\* every router type but grouped.
AuxLossConfigs ==
    {[Base EXCEPT !.moe_router_load_balancing_type = "aux_loss",
                  !.num_moe_experts = 3, !.moe_router_topk = 2,
                  !.moe_aux_loss_type = a[1], !.moe_router_type = a[2],
                  !.moe_aux_loss_coeff = c] :
        a \in ({StrSwitch} \X {"mixtral", "st", "dense"})
               \cup (AuxLossTypes \X {"mixtral"}),
        c \in {0, 1}}

\* Grouped selection: <<N, k, group size>>, divisible and not.
GroupedShapes ==
    {<<4, 2, 2>>, <<4, 2, 1>>, <<4, 4, 4>>, <<2, 2, 2>>,
     <<4, 3, 2>>, <<4, 1, 2>>, <<3, 2, 2>>}

GroupedConfigs ==
    {[Base EXCEPT !.moe_router_load_balancing_type = "aux_loss",
                  !.moe_router_type = "grouped", !.moe_aux_loss_coeff = 1,
                  !.num_moe_experts = g[1], !.moe_router_topk = g[2],
                  !.moe_group_size = g[3]] : g \in GroupedShapes}

\* Sigmoid routing with the dropout rate unset, zero and set.
SigmoidConfigs ==
    {[Base EXCEPT !.moe_router_load_balancing_type = "sigmoid",
                  !.moe_router_topk = k, !.moe_dropout = d,
                  !.moe_aux_loss_coeff = 1] :
        k \in 1..2, d \in {None, <<0>>, Dropout}}

\* The session of grouped_router's docstring: 8 experts, top 4, 2 groups,
\* and the logits it prints (to two decimals), which a gate of hidden size 4
\* yields for the four unit vectors.
DocLogits ==
    << <<66, 51, -271, -107, -43, -6, 30, -68>>,
       <<26, 110, 126, 4, 88, -5, 173, 105>>,
       <<30, -126, -49, -79, 17, 134, 32, -62>>,
       <<-149, -29, 26, 96, -32, 84, -66, -65>> >>

DocIndices ==
    << <<0, 1, 6, 5>>, <<2, 1, 6, 7>>, <<0, 2, 5, 6>>, <<3, 2, 5, 4>> >>

DocConfig ==
    [Base EXCEPT !.moe_router_load_balancing_type = "aux_loss",
                 !.moe_router_type = "grouped", !.moe_aux_loss_coeff = 1,
                 !.num_moe_experts = 8, !.moe_router_topk = 4,
                 !.moe_group_size = 2, !.hidden_size = 4]

DocWeight == [n \in 1..8 |-> [h \in 1..4 |-> DocLogits[h][n]]]

DocInput == [t \in 1..4 |-> [h \in 1..4 |-> IF h = t THEN 1 ELSE 0]]

Configs ==
    ZLossConfigs \cup JitterConfigs \cup SinkhornConfigs \cup NoneConfigs
    \cup AuxLossConfigs \cup GroupedConfigs \cup SigmoidConfigs \cup {DocConfig}

\* Whether a call under cfg may draw from random state.
Noisy(cfg) == ~IsNone(cfg.moe_input_jitter_eps) \/ Truthy(cfg.moe_dropout)

TokenCounts(cfg) ==
    IF Noisy(cfg) THEN 1..MaxNoisyTokens
    ELSE IF cfg.moe_router_type = "grouped" /\ cfg.moe_router_topk = 3
    THEN 1..MaxGroupedTokens
    ELSE 1..MaxTokens

Weights(cfg) ==
    IF cfg = DocConfig THEN {DocWeight}
    ELSE [1..cfg.num_moe_experts -> [1..1 -> WeightVals]]

Batches(cfg) ==
    IF cfg = DocConfig THEN {DocInput} \cup {<<DocInput[t]>> : t \in 1..4}
    ELSE UNION {[1..T -> [1..1 -> InputVals]] : T \in TokenCounts(cfg)}

\* The samples the jitter sampler can give for a (T, N) tensor, and the masks
\* bernoulli_ can give.
JitterSamples(cfg, T) ==
    IF IsNone(cfg.moe_input_jitter_eps)
    THEN {[t \in 1..T |-> [n \in 1..cfg.num_moe_experts |-> 100]]}
    ELSE [1..T -> [1..cfg.num_moe_experts ->
            {100 - cfg.moe_input_jitter_eps[1], 100 + cfg.moe_input_jitter_eps[1]}]]

DropoutMasks(cfg, training, T) ==
    IF cfg.moe_router_load_balancing_type = "sigmoid"
       /\ Truthy(cfg.moe_dropout) /\ training
    THEN [1..T -> [1..cfg.num_moe_experts -> BOOLEAN]]
    ELSE {[t \in 1..T |-> [n \in 1..cfg.num_moe_experts |-> FALSE]]}

\* ------------------------------------------------------------- state machine

VARIABLES
    config,        \* the TransformerConfig the router was built with
    weight,        \* self.weight, (num_moe_experts, hidden_size)
    tie,           \* how this build's torch.topk orders equal values
    batch,         \* the token batch the caller presents, (T, hidden_size)
    training,      \* self.training
    input_jitter,  \* self.input_jitter: "None" or the sampler "rsample"
    call,          \* the last forward call: what it computed and how it ended
    data_dir,      \* args.data_dir: its *.hdf5 files, name |-> len(f["data"])
    args,          \* args.ntrain and args.nadd
    walk           \* get_train_add_data_paths: its locals and where it stands

vars == <<config, weight, tie, batch, training, input_jitter, call,
          data_dir, args, walk>>

routerVars == <<config, weight, tie, batch, training, input_jitter, call>>

pathVars == <<data_dir, args, walk>>

\* get_train_add_data_paths not yet called.
NoWalk ==
    [pc |-> "start", all_paths |-> <<>>, path_index |-> 0, opened |-> 0,
     ntotal |-> 0, ntrain |-> None, train_paths |-> None,
     nadd |-> None, add_paths |-> None, outcome |-> "none"]

NoCall ==
    [outcome |-> "none", error |-> "", training |-> FALSE, repeated |-> FALSE,
     logits |-> <<>>, z_logits |-> <<>>, routed |-> <<>>,
     scores |-> <<>>, indices |-> <<>>, losses |-> <<>>, steps |-> <<>>,
     grouped |-> NotCalled]

\* TopKRouter.__init__: a module starts in training mode, with no sampler.
Init ==
    /\ config \in Configs
    /\ weight \in Weights(config)
    /\ tie \in {"low", "high"}
    /\ batch \in Batches(config)
    /\ training = TRUE
    /\ input_jitter = "None"
    /\ call = NoCall
    /\ data_dir = <<>>
    /\ args = [ntrain |-> 0, nadd |-> 0]
    /\ walk = NoWalk

\* Router.forward(input): gating, view, routing; returns (scores, indices) or
\* raises.
Forward ==
    \E noise \in JitterSamples(config, Len(batch)),
       mask \in DropoutMasks(config, training, Len(batch)) :
      \E logits \in {View(Gating(batch, weight), config.num_moe_experts)} :
        \E r \in {Routing(config, training, input_jitter, logits, noise, mask, tie)} :
            /\ call' = [outcome |-> IF r.res.ok THEN "returned" ELSE "raised",
                        error |-> r.res.error,
                        training |-> training,
                        repeated |-> call.outcome # "none",
                        logits |-> r.logits,
                        z_logits |-> r.z_logits,
                        routed |-> r.routed,
                        scores |-> r.res.scores,
                        indices |-> r.res.indices,
                        losses |-> r.losses,
                        steps |-> <<"gating", "view">> \o r.steps,
                        grouped |-> r.res.grouped]
            /\ input_jitter' = r.input_jitter
            /\ UNCHANGED <<config, weight, tie, batch, training>>
            /\ UNCHANGED pathVars

\* module.train() and module.eval().
Train ==
    /\ ~training
    /\ training' = TRUE
    /\ UNCHANGED <<config, weight, tie, batch, input_jitter, call>>
    /\ UNCHANGED pathVars

Eval ==
    /\ training
    /\ training' = FALSE
    /\ UNCHANGED <<config, weight, tie, batch, input_jitter, call>>
    /\ UNCHANGED pathVars

Next == Forward \/ Train \/ Eval

Spec == Init /\ [][Next]_vars

\* ------------------------------------------------- tools/retrieval/data paths

\* The most *.hdf5 files of a data directory, the most vectors of a file,
\* and the largest args.ntrain and args.nadd.
MaxPaths == 3

MaxVecs == 2

MaxWanted == 4

\* File names, by their rank in the order of paths.sort().
PathNames == 1..MaxPaths

\* The data directories: some of the names, each file with its vector count.
DataDirs == UNION {[names -> 0..MaxVecs] : names \in SUBSET PathNames}

\* glob.glob: the directory's files in an order of the file system's choice.
Glob(dir) ==
    {g \in [1..Cardinality(DOMAIN dir) -> DOMAIN dir] :
        \A i, j \in 1..Cardinality(DOMAIN dir) : i # j => g[i] # g[j]}

\* paths.sort(), by insertion.
RECURSIVE Insert(_, _)
Insert(sorted, p) ==
    IF sorted = <<>> THEN <<p>>
    ELSE IF p <= Head(sorted) THEN <<p>> \o sorted
    ELSE <<Head(sorted)>> \o Insert(Tail(sorted), p)

RECURSIVE SortPaths(_)
SortPaths(paths) ==
    IF paths = <<>> THEN <<>>
    ELSE Insert(SortPaths(Tail(paths)), Head(paths))

\* The tests of lines 71 and 74: the running total has reached the number
\* asked for.
ReachedStrict(ntotal, wanted) == ntotal > wanted

Reached(ntotal, wanted) == ntotal >= wanted

PathsInit ==
    /\ data_dir \in DataDirs
    /\ args \in [ntrain : 0..MaxWanted, nadd : 0..MaxWanted]
    /\ walk = NoWalk
    /\ config = Base /\ weight = <<>> /\ tie = "low" /\ batch = <<>>
    /\ training = TRUE /\ input_jitter = "None" /\ call = NoCall

\* get_all_data_paths: glob, sort (the count it prints is not returned).
GetAllDataPaths ==
    /\ walk.pc = "start"
    /\ \E g \in Glob(data_dir) :
          walk' = [walk EXCEPT !.pc = "loop", !.all_paths = SortPaths(g)]
    /\ UNCHANGED <<data_dir, args>>
    /\ UNCHANGED routerVars

\* One turn of the loop of lines 64-79 on all_paths[path_index]; the break
\* of line 79 leaves the loop.
LoopBody ==
    /\ walk.pc = "loop"
    /\ walk.path_index < Len(walk.all_paths)
    /\ LET path == walk.all_paths[walk.path_index + 1]
           n == data_dir[path]
           ntotal == walk.ntotal + n
           fix_train == Reached(ntotal, args.ntrain) /\ IsNone(walk.ntrain)
           fix_add == Reached(ntotal, args.nadd) /\ IsNone(walk.nadd)
           prefix == SubSeq(walk.all_paths, 1, walk.path_index + 1)
           ntrain == IF fix_train THEN <<ntotal>> ELSE walk.ntrain
           nadd == IF fix_add THEN <<ntotal>> ELSE walk.nadd
       IN  walk' = [walk EXCEPT
                      !.opened = @ + 1,
                      !.ntotal = ntotal,
                      !.ntrain = ntrain,
                      !.train_paths = IF fix_train THEN <<prefix>> ELSE @,
                      !.nadd = nadd,
                      !.add_paths = IF fix_add THEN <<prefix>> ELSE @,
                      !.path_index = IF ~IsNone(ntrain) /\ ~IsNone(nadd)
                                     THEN @ ELSE @ + 1,
                      !.pc = IF ~IsNone(ntrain) /\ ~IsNone(nadd)
                             THEN "check" ELSE "loop"]
    /\ UNCHANGED <<data_dir, args>>
    /\ UNCHANGED routerVars

\* The loop runs out of paths.
LoopEnd ==
    /\ walk.pc = "loop"
    /\ walk.path_index = Len(walk.all_paths)
    /\ walk' = [walk EXCEPT !.pc = "check"]
    /\ UNCHANGED <<data_dir, args>>
    /\ UNCHANGED routerVars

\* Lines 82-85: raise on insufficient data, else return.
RaiseOrReturn ==
    /\ walk.pc = "check"
    /\ walk' = [walk EXCEPT
                  !.pc = "done",
                  !.outcome = IF IsNone(walk.ntrain) \/ IsNone(walk.nadd)
                              THEN "raised" ELSE "returned"]
    /\ UNCHANGED <<data_dir, args>>
    /\ UNCHANGED routerVars

PathsNext == GetAllDataPaths \/ LoopBody \/ LoopEnd \/ RaiseOrReturn

PathsSpec == PathsInit /\ [][PathsNext]_vars

\* ------------------------------------------------------------------ claims

Has(seq, v) == \E i \in 1..Len(seq) : seq[i] = v

Made == call.outcome # "none"

RoutingType == config.moe_router_load_balancing_type

NumExperts == config.num_moe_experts

TopK == config.moe_router_topk

GroupSize == config.moe_group_size

\* The values of a row are pairwise distinct.
Distinct(row) == \A i, j \in 1..Len(row) : i # j => row[i] # row[j]

\* C1: whenever routing returns, under a configuration with k <= N, every row
\* of the returned indices holds k pairwise distinct expert ids in
\* [0, num_experts).
C1_IndicesDistinctInRange ==
    (call.outcome = "returned" /\ TopK <= NumExperts) =>
        \A t \in 1..Len(call.indices) :
            /\ Len(call.indices[t]) = TopK
            /\ \A i \in 1..TopK : call.indices[t][i] \in 0..(NumExperts - 1)
            /\ Distinct(call.indices[t])

\* grouped_router was called with N and k both multiples of the group size.
GroupedDivisible ==
    /\ call.grouped.called
    /\ NumExperts % GroupSize = 0
    /\ TopK % GroupSize = 0

\* The reference of C2: the full softmax of a token's logits, then for each
\* group in turn the top k/G of the group's slice, as global ids.
RECURSIVE RefGroups(_, _, _, _, _)
RefGroups(probs, g, per_group, quota, tie_) ==
    IF g * per_group >= Len(probs) THEN <<>>
    ELSE LET slice == SubSeq(probs, g * per_group + 1, (g + 1) * per_group)
             local == TopKIndices(slice, quota, tie_)
         IN  [i \in 1..quota |-> local[i] + g * per_group]
             \o RefGroups(probs, g + 1, per_group, quota, tie_)

RefGrouped(logits) ==
    [t \in 1..Len(logits) |->
        RefGroups(Softmax(logits[t]), 0, NumExperts \div GroupSize,
                  TopK \div GroupSize, tie)]

\* C2: grouped_router with N % G = 0 and k % G = 0 returns, for every token
\* and every group g, k/G indices of group g at the positions of g (group
\* order, global ids), which are the group's experts of highest full-softmax
\* probability; the scores are those probabilities; the result equals the
\* reference; and the docstring's logits yield the docstring's indices,
\* [0, 1, 6, 5] for its first row.
C2_GroupedSelection ==
    GroupedDivisible =>
        LET g == call.grouped
            per_group == NumExperts \div GroupSize
            quota == TopK \div GroupSize
        IN  /\ g.ok
            /\ g.probs = SoftmaxRows(call.routed)
            /\ Len(g.indices) = Len(call.routed)
            /\ \A t \in 1..Len(g.indices) :
                /\ Len(g.indices[t]) = TopK
                /\ Distinct(g.indices[t])
                /\ \A grp \in 0..(GroupSize - 1) :
                    LET chosen == {g.indices[t][grp * quota + i] : i \in 1..quota}
                        members == (grp * per_group)..((grp + 1) * per_group - 1)
                    IN  /\ chosen \subseteq members
                        /\ {i \in 1..TopK : g.indices[t][i] \in members}
                               = {grp * quota + i : i \in 1..quota}
                        /\ \A c \in chosen : \A m \in members \ chosen :
                               g.probs[t][c + 1] >= g.probs[t][m + 1]
                /\ \A i \in 1..TopK :
                       g.scores[t][i] = g.probs[t][g.indices[t][i] + 1]
            /\ g.indices = RefGrouped(call.routed)
            /\ (config = DocConfig /\ call.routed = DocLogits)
                   => g.indices = DocIndices
            /\ (config = DocConfig /\ call.routed[1] = DocLogits[1])
                   => g.indices[1] = <<0, 1, 6, 5>>

\* The docstring's session has run: 8 experts, top 4, 2 groups, its logits.
C2_Witness ==
    /\ GroupedDivisible
    /\ config = DocConfig
    /\ call.routed = DocLogits
    /\ call.grouped.indices[1] = <<0, 1, 6, 5>>

SinkhornWithAuxLoss ==
    RoutingType = "sinkhorn" /\ config.moe_aux_loss_coeff # 0

\* C3: a forward call with routing_type sinkhorn and a non-zero
\* aux-loss coefficient raises before the gate projection, the z-loss and the
\* input jitter have run, and returns nothing.
C3_SinkhornRaisesEagerly ==
    (Made /\ SinkhornWithAuxLoss) =>
        /\ call.outcome = "raised"
        /\ ~Has(call.steps, "gating")
        /\ ~Has(call.steps, "z_loss")
        /\ ~Has(call.steps, "input_jitter")

\* C4: grouped_router called with N % G # 0 or k % G # 0 raises and returns
\* nothing, whatever the token count.
C4_GroupedRaisesOnIndivisible ==
    (call.grouped.called
        /\ (NumExperts % GroupSize # 0 \/ TopK % GroupSize # 0))
    => ~call.grouped.ok

\* C5: routing raises whenever routing_type is not one of none, sinkhorn,
\* aux_loss, sigmoid and, under aux_loss, whenever the aux-loss type is not
\* exactly switch, btx or btx_nograd.
C5_UnrecognizedRaises ==
    (Made
        /\ \/ RoutingType \notin {"none", "sinkhorn", "aux_loss", "sigmoid"}
           \/ RoutingType = "aux_loss"
              /\ config.moe_aux_loss_type \notin {StrSwitch, StrBtx, StrBtxNograd})
    => call.outcome = "raised"

\* C6: the input jitter is applied only with an epsilon configured and in
\* training mode; a call in evaluation mode hands the strategy the
\* un-perturbed values.
C6_NoJitterInEval ==
    Made =>
        /\ Has(call.steps, "input_jitter")
              => (~IsNone(config.moe_input_jitter_eps) /\ call.training)
        /\ ~call.training => call.routed = call.z_logits

\* C7: the z-loss is computed and attached to the logits exactly when the
\* z-loss coefficient is not None, in either mode and under every
\* routing_type, and the logits that carry it have the values of the gate's
\* logits.
C7_ZLossIffConfigured ==
    Made =>
        /\ Has(call.steps, "z_loss") <=> ~IsNone(config.moe_z_loss_coeff)
        /\ (\E i \in 1..Len(call.losses) :
               call.losses[i].func = "z_loss_func" /\ call.losses[i].on = "logits")
              <=> ~IsNone(config.moe_z_loss_coeff)
        /\ call.z_logits = call.logits
        /\ call.logits = View(Gating(batch, weight), NumExperts)

\* A call in evaluation mode, under an unrecognised routing_type, with the
\* z-loss coefficient 0: the z-loss was attached.
C7_Witness ==
    /\ Made /\ ~call.training
    /\ RoutingType = "expert_choice"
    /\ config.moe_z_loss_coeff = <<0>>
    /\ Has(call.steps, "z_loss")

\* C8: under routing_type none a call on the logits of the call
\* before it, in whichever modes, returns the same (weights, indices) and
\* draws nothing from random state.
C8_NoneDeterministic ==
    [][(RoutingType = "none" /\ call.outcome = "returned"
          /\ call'.outcome # "none" /\ call'.logits = call.logits)
       => /\ call'.outcome = "returned"
          /\ call'.scores = call.scores
          /\ call'.indices = call.indices
          /\ ~Has(call'.steps, "input_jitter")]_vars

\* The activation sinkhorn routing applies to the logits it was handed.
SinkhornAct ==
    IF TopK = 1 THEN SigmoidAll(call.routed) ELSE SoftmaxRows(call.routed)

SinkhornReturned ==
    /\ RoutingType = "sinkhorn" /\ config.moe_aux_loss_coeff = 0
    /\ call.outcome = "returned"

\* C9: sinkhorn with aux-loss coefficient 0.  In evaluation mode the result
\* is the top-k of the activation (sigmoid for k = 1, softmax otherwise); in
\* training mode the indices are the top-k of the sinkhorn-normalised
\* logits; in both each weight is the activation of the logits at the
\* returned index.
C9_SinkhornModes ==
    SinkhornReturned =>
        /\ ~call.training =>
              /\ call.indices = TopKIdx(SinkhornAct, TopK, tie)
              /\ call.scores = TopKScores(SinkhornAct, TopK, tie)
        /\ call.training =>
              call.indices = TopKIdx(Sinkhorn(call.routed), TopK, tie)
        /\ \A t \in 1..Len(call.indices) : \A i \in 1..TopK :
              call.scores[t][i] = SinkhornAct[t][call.indices[t][i] + 1]

\* A training call whose balanced selection is not the top-k of the
\* activation, where no two logits of a token are equal.
C9_Witness ==
    /\ SinkhornReturned /\ call.training
    /\ \A t \in 1..Len(call.routed) : Distinct(call.routed[t])
    /\ call.indices # TopKIdx(SinkhornAct, TopK, tie)

\* C10: under sigmoid routing in training mode with a dropout rate, the
\* probabilities handed to the balancing loss are the full softmax of the
\* logits before masking.
C10_LossProbsUnmasked ==
    (RoutingType = "sigmoid" /\ Truthy(config.moe_dropout)
        /\ call.outcome = "returned" /\ call.training)
    => \A i \in 1..Len(call.losses) :
          call.losses[i].on = "scores"
              => call.losses[i].probs = SoftmaxRows(call.routed)

\* C11: whenever routing returns, under whichever configuration, every
\* returned weight is non-negative.
C11_WeightsNonNegative ==
    call.outcome = "returned" =>
        \A t \in 1..Len(call.scores) : \A i \in 1..Len(call.scores[t]) :
            call.scores[t][i] >= 0

\* A sinkhorn training call has returned weights for a token all of whose
\* logits are negative, at indices that are not the top-k of the activation.
C11_Witness ==
    /\ SinkhornReturned /\ call.training
    /\ \E t \in 1..Len(call.routed) :
          \A n \in 1..Len(call.routed[t]) : call.routed[t][n] < 0
    /\ call.indices # TopKIdx(SinkhornAct, TopK, tie)
    /\ call.scores # <<>>

\* The configuration of the state with routing_type none in place of its
\* own, and what the none branch returns on the logits the strategy got.
NoneConfig == [config EXCEPT !.moe_router_load_balancing_type = "none"]

NoneResult == Dispatch(NoneConfig, call.training, call.routed, <<>>, tie).res

\* aux_loss routing with mixtral-style selection, or one of the BTX variants.
AuxLossMixtralOrBtx ==
    /\ RoutingType = "aux_loss"
    /\ \/ config.moe_aux_loss_type = StrSwitch /\ config.moe_router_type = "mixtral"
       \/ config.moe_aux_loss_type \in {StrBtx, StrBtxNograd}

\* C12: a call under aux_loss with mixtral-style selection, btx or
\* btx_nograd, whatever the aux-loss coefficient, returns the (weights,
\* indices) that routing_type none returns on the same logits and k.
C12_AuxLossKeepsForward ==
    (Made /\ AuxLossMixtralOrBtx) =>
        /\ call.outcome = "returned" <=> NoneResult.ok
        /\ call.scores = NoneResult.scores
        /\ call.indices = NoneResult.indices

\* A btx_nograd call with a non-zero coefficient has returned the top 2 of 3
\* experts for a token whose logits are not all equal.
C12_Witness ==
    /\ RoutingType = "aux_loss" /\ config.moe_aux_loss_type = StrBtxNograd
    /\ config.moe_aux_loss_coeff # 0
    /\ call.outcome = "returned"
    /\ TopK < NumExperts
    /\ \E t \in 1..Len(call.routed) : \E n \in 1..NumExperts :
          call.routed[t][n] # call.routed[t][1]
    /\ \E i \in 1..Len(call.losses) : call.losses[i].nograd

\* The steps of a call that are routing strategies, and how often a step ran.
Strategies ==
    {"sinkhorn_load_balancing", "aux_loss_load_balancing",
     "btx_aux_loss_load_balancing", "none", "sigmoid_load_balancing"}

Count(seq, v) == Cardinality({i \in 1..Len(seq) : seq[i] = v})

StrategyRuns == Cardinality({i \in 1..Len(call.steps) : call.steps[i] \in Strategies})

\* The place of a step in the order the pipeline is to follow.
Rank(step) ==
    IF step = "gating" THEN 1
    ELSE IF step = "view" THEN 2
    ELSE IF step = "z_loss" THEN 3
    ELSE IF step = "input_jitter" THEN 4
    ELSE 5

\* The z-loss, when computed, was computed on the gate's logits as they were
\* before the jitter.
ZLossOnUnjittered ==
    \A i \in 1..Len(call.losses) :
        call.losses[i].func = "z_loss_func" => call.losses[i].probs = call.logits

SortedNames ==
    CHOOSE q \in [1..Cardinality(DOMAIN data_dir) -> DOMAIN data_dir] :
        \A i, j \in 1..Cardinality(DOMAIN data_dir) : i < j => q[i] < q[j]

CumCount(i) == SumSeq([k \in 1..i |-> data_dir[SortedNames[k]]])

TotalCount == CumCount(Len(SortedNames))

ShortestPrefix(wanted) ==
    CHOOSE i \in 1..Len(SortedNames) :
        /\ CumCount(i) >= wanted
        /\ \A h \in 1..(i - 1) : CumCount(h) < wanted

Larger(a, b) == IF a >= b THEN a ELSE b

\* C14: when get_train_add_data_paths ends, it has raised exactly when there
\* are no paths or the total count is below max(args.ntrain, args.nadd);
\* otherwise train_paths is the shortest non-empty prefix of the sorted paths
\* whose cumulative count is >= args.ntrain and ntrain is that count,
\* likewise add_paths and nadd for args.nadd, and the walk has opened no
\* file beyond the longer of the two prefixes.
C14_ShortestPrefixes ==
    walk.pc = "done" =>
        /\ walk.outcome = "raised" <=>
              (SortedNames = <<>>
                 \/ TotalCount < Larger(args.ntrain, args.nadd))
        /\ walk.outcome = "raised" =>
              walk.opened = Len(SortedNames)
        /\ walk.outcome = "returned" =>
              LET t == ShortestPrefix(args.ntrain)
                  a == ShortestPrefix(args.nadd)
              IN  /\ walk.train_paths = <<SubSeq(SortedNames, 1, t)>>
                  /\ walk.ntrain = <<CumCount(t)>>
                  /\ walk.add_paths = <<SubSeq(SortedNames, 1, a)>>
                  /\ walk.nadd = <<CumCount(a)>>
                  /\ walk.opened = Larger(t, a)

\* A walk has returned a train prefix shorter than the add prefix, and that
\* one shorter than the list of all paths.
C14_Witness ==
    /\ walk.pc = "done" /\ walk.outcome = "returned"
    /\ Len(walk.train_paths[1]) < Len(walk.add_paths[1])
    /\ Len(walk.add_paths[1]) < Len(walk.all_paths)
    /\ walk.ntrain[1] > args.ntrain

====
